---- MODULE Spec2Model ----
(***************************************************************************)
(* RATCHET web demo (web_demo.py): the sampling filters top_k_logits and   *)
(* top_p_logits, the decoding loop evaluate, and the validator gate and    *)
(* attention rendering of main.                                            *)
(*                                                                         *)
(* Units.  A logit is an integer n standing for the score n * ln 2, so     *)
(* that exp(logit) = 2^n and the softmax is exact rational arithmetic.     *)
(* Slider values with step 0.01 (temperature, top_p) are integers in       *)
(* hundredths; the validator probability is an integer in ten-thousandths. *)
(* Rounding of float32 arithmetic is not modelled.                         *)
(***************************************************************************)
EXTENDS Integers, Sequences, FiniteSets, TLC

\* ---------------------------------------------------------------- bounds
VocabSize == 3
MaxLogit == 1
MaxScale == 3
MaxSteps == 2

\* ------------------------------------------------------ program constants
STOP_TOKEN == 2
START_TOKEN == 0
SLIDER_DEN == 100
VALID_THRESHOLD == 1000
\* the mask value -1e10, which lies below every logit and whose exp is 0; the
\* model's integers are 32 bits wide, so it is written as -1e9
SENTINEL == -1000000000

TokenIds == 0..(VocabSize - 1)
LogitVectors == [TokenIds -> 0..MaxLogit]

\* temperature slider: 0.00 .. 1.00; the model draws the values t for which
\* 1/t is an integer no larger than MaxScale, and the minimum 0.
TemperatureChoices ==
  {0} \cup {t \in 1..SLIDER_DEN : SLIDER_DEN % t = 0 /\ SLIDER_DEN \div t <= MaxScale}
TopKChoices == 0..VocabSize
TopPChoices == {0, 30, 60, SLIDER_DEN}
OptionChoices == {"Greedy", "Sampling"}
ValidChoices == {0, 999, 1000, 5000}

VARIABLES
  pc,           \* position of main: idle, decoding, returned, rejected, rendered
  options, temperature, top_k, top_p,   \* sidebar configuration
  valid,        \* sigmoid output of the validator (ten-thousandths)
  MAX_LENGTH,   \* evaluate's step limit
  output,       \* evaluate: token sequence fed to the decoder
  i,            \* evaluate: loop index
  calls,        \* number of transformer invocations of the current run
  selected,     \* predicted_id of each step of the current run, in order
  result, tokens,   \* first and third value returned by evaluate
  subplots,     \* titles of the overlay subplots drawn by main
  info,         \* whether st.info('Image is not a Chest X-ray') was shown
  stage,        \* position inside one filter pass
  raw,          \* last-position logits delivered by the transformer
  scaled,       \* raw / temperature
  filteredK,    \* after top_k_logits
  predictions,  \* after top_p_logits
  predicted_id  \* id selected from predictions

vars == <<pc, options, temperature, top_k, top_p, valid, MAX_LENGTH, output, i,
          calls, selected, result, tokens, subplots, info,
          stage, raw, scaled, filteredK, predictions, predicted_id>>

mainVars == <<pc, options, temperature, top_k, top_p, valid, MAX_LENGTH, output, i,
              calls, selected, result, tokens, subplots, info>>
filterVars == <<stage, raw, scaled, filteredK, predictions, predicted_id>>

\* ---------------------------------------------------------------- helpers
Max(a, b) == IF a >= b THEN a ELSE b

VecToSeq(v) == [j \in 1..VocabSize |-> v[j - 1]]

RemoveAt(s, idx) == SubSeq(s, 1, idx - 1) \o SubSeq(s, idx + 1, Len(s))

SeqMax(s) == CHOOSE m \in {s[j] : j \in 1..Len(s)} : \A j \in 1..Len(s) : s[j] <= m

RECURSIVE SortDesc(_)
\* tf.sort(direction='DESCENDING') / the values of tf.nn.top_k
SortDesc(s) ==
  IF Len(s) = 0 THEN <<>>
  ELSE LET m == SeqMax(s)
           idx == CHOOSE j \in 1..Len(s) : s[j] = m /\ \A jj \in 1..(j - 1) : s[jj] # m
       IN <<m>> \o SortDesc(RemoveAt(s, idx))

\* exp of a logit; exp(-1e10) is 0 in floating point
ExpLogit(x) == IF x <= SENTINEL THEN 0 ELSE 2 ^ x

RECURSIVE CumWeight(_, _)
\* tf.cumsum of the unnormalised softmax weights of a sorted sequence
CumWeight(s, j) == IF j = 0 THEN 0 ELSE CumWeight(s, j - 1) + ExpLogit(s[j])

\* predictions[:, -1, :] / temperature, temperature = t/100 > 0
ScaleLogits(logits, t) == [id \in TokenIds |-> (logits[id] * SLIDER_DEN) \div t]

BelowOrAtMin(x, min_values) == x <= min_values

\* logits < min_values  (the mask condition of both filters)
BelowMin(x, min_values) == x < min_values

MaskBelow(logits, min_values) ==
  [id \in TokenIds |-> IF BelowMin(logits[id], min_values) THEN SENTINEL ELSE logits[id]]

top_k_logits(logits, k) ==
  IF k = 0 THEN logits
  ELSE LET values == SubSeq(SortDesc(VecToSeq(logits)), 1, k)
           min_values == values[k]
       IN MaskBelow(logits, min_values)

WithinPStrict(cum, total, p) == cum * SLIDER_DEN < p * total

\* cumulative_probs <= p, with cumulative_probs = cum / total and p in hundredths
WithinP(cum, total, p) == cum * SLIDER_DEN <= p * total

top_p_logits(logits, p) ==
  LET sorted_logits == SortDesc(VecToSeq(logits))
      total == CumWeight(sorted_logits, VocabSize)
      count == Cardinality({j \in 1..VocabSize :
                              WithinP(CumWeight(sorted_logits, j), total, p)})
      index == Max(count - 1, 0)
      min_values == sorted_logits[index + 1]
  IN MaskBelow(logits, min_values)

\* tf.argmax: index of the first maximal entry
ArgMax(v) == CHOOSE id \in TokenIds :
               /\ \A o \in TokenIds : v[o] <= v[id]
               /\ \A o \in TokenIds : o < id => v[o] < v[id]

\* support of tf.random.categorical: ids whose probability is not zero
Support(v) == {id \in TokenIds : ExpLogit(v[id]) > 0}

Unmasked(v) == {id \in TokenIds : v[id] # SENTINEL}


ZeroVector == [id \in TokenIds |-> 0]

\* ------------------------------------------------ filter pass, step by step
\* One pass of evaluate's lines 110-117 over one logits vector, for every
\* configuration with temperature > 0.
InitFilter ==
  /\ pc = "filter"
  /\ options \in OptionChoices
  /\ temperature \in TemperatureChoices \ {0}
  /\ top_k \in TopKChoices
  /\ top_p \in TopPChoices
  /\ valid = 0 /\ MAX_LENGTH = 1 /\ output = <<START_TOKEN>> /\ i = 0
  /\ calls = 0 /\ selected = <<>> /\ result = <<>> /\ tokens = 0
  /\ subplots = <<>> /\ info = FALSE
  /\ stage = "model"
  /\ raw \in LogitVectors
  /\ scaled = ZeroVector /\ filteredK = ZeroVector /\ predictions = ZeroVector
  /\ predicted_id = 0

FilterScale ==
  /\ stage = "model"
  /\ scaled' = ScaleLogits(raw, temperature)
  /\ stage' = "scaled"
  /\ UNCHANGED <<mainVars, raw, filteredK, predictions, predicted_id>>

FilterTopK ==
  /\ stage = "scaled"
  /\ filteredK' = top_k_logits(scaled, top_k)
  /\ stage' = "top_k"
  /\ UNCHANGED <<mainVars, raw, scaled, predictions, predicted_id>>

FilterTopP ==
  /\ stage = "top_k"
  /\ predictions' = top_p_logits(filteredK, top_p)
  /\ stage' = "top_p"
  /\ UNCHANGED <<mainVars, raw, scaled, filteredK, predicted_id>>

FilterGreedy ==
  /\ stage = "top_p"
  /\ options = "Greedy"
  /\ predicted_id' = ArgMax(predictions)
  /\ stage' = "selected"
  /\ UNCHANGED <<mainVars, raw, scaled, filteredK, predictions>>

FilterSampling ==
  /\ stage = "top_p"
  /\ options = "Sampling"
  /\ \E id \in Support(predictions) : predicted_id' = id
  /\ stage' = "selected"
  /\ UNCHANGED <<mainVars, raw, scaled, filteredK, predictions>>

NextFilter == FilterScale \/ FilterTopK \/ FilterTopP \/ FilterGreedy \/ FilterSampling

SpecFilter == InitFilter /\ [][NextFilter]_vars

\* ------------------------------------------------------------ main, evaluate
\* ids evaluate can select in one step from the model's logits.  With
\* temperature 0 the division yields inf/nan entries and the id that comes
\* out of sort, softmax, argmax and categorical is not determined.
Candidates(logits, opt, t, k, p) ==
  IF t = 0 THEN TokenIds
  ELSE LET preds == top_p_logits(top_k_logits(ScaleLogits(logits, t), k), p)
       IN IF opt = "Greedy" THEN {ArgMax(preds)} ELSE Support(preds)

NotAChestXrayInclusive(v) == v <= VALID_THRESHOLD

\* valid < 0.1
NotAChestXray(v) == v < VALID_THRESHOLD

IsStopTokenNever(id) == FALSE

\* predicted_id == 2
IsStopToken(id) == id = STOP_TOKEN

ReturnedIdsWithStart(out) == out

\* tf.squeeze(output, axis=0)[1:]
ReturnedIds(out) == SubSeq(out, 2, Len(out))

\* range(MAX_LENGTH) has a next index after step
HasNextStep(step, max_length) == step + 1 < max_length

\* range(tokens - 1) of the rendering loop
RenderRange(n) == 1..(n - 1)

Init ==
  /\ pc = "idle"
  /\ options = "Greedy"
  /\ temperature = SLIDER_DEN
  /\ top_k = 0
  /\ top_p = SLIDER_DEN
  /\ valid = 0
  /\ MAX_LENGTH \in 1..MaxSteps
  /\ output = <<START_TOKEN>> /\ i = 0
  /\ calls = 0 /\ selected = <<>> /\ result = <<>> /\ tokens = 0
  /\ subplots = <<>> /\ info = FALSE
  /\ stage = "off"
  /\ raw = ZeroVector /\ scaled = ZeroVector /\ filteredK = ZeroVector
  /\ predictions = ZeroVector /\ predicted_id = 0

runVars == <<valid, output, i, calls, selected, result, tokens, subplots, info>>

SelectOptions ==
  /\ pc = "idle"
  /\ \E o \in OptionChoices : options' = o
  /\ UNCHANGED <<pc, temperature, top_k, top_p, MAX_LENGTH, runVars, filterVars>>

SlideTemperature ==
  /\ pc = "idle"
  /\ \E t \in TemperatureChoices : temperature' = t
  /\ UNCHANGED <<pc, options, top_k, top_p, MAX_LENGTH, runVars, filterVars>>

SlideTopK ==
  /\ pc = "idle"
  /\ \E k \in TopKChoices : top_k' = k
  /\ UNCHANGED <<pc, options, temperature, top_p, MAX_LENGTH, runVars, filterVars>>

SlideTopP ==
  /\ pc = "idle"
  /\ \E p \in TopPChoices : top_p' = p
  /\ UNCHANGED <<pc, options, temperature, top_k, MAX_LENGTH, runVars, filterVars>>

\* main, lines 153-181: read the image, run the validator, either report the
\* rejection and return or enter evaluate (lines 95-97)
Upload ==
  /\ pc = "idle"
  /\ \E v \in ValidChoices :
       /\ valid' = v
       /\ IF NotAChestXray(v)
            THEN /\ info' = TRUE
                 /\ pc' = "rejected"
            ELSE /\ info' = FALSE
                 /\ pc' = "decoding"
  /\ output' = <<START_TOKEN>>
  /\ i' = 0
  /\ UNCHANGED <<options, temperature, top_k, top_p, MAX_LENGTH, calls, selected,
                 result, tokens, subplots, filterVars>>

\* evaluate, one iteration of the loop of lines 98-128, and the return of
\* line 124 or of line 132 when the iteration is the last one
DecodeStep ==
  /\ pc = "decoding"
  /\ \E logits \in LogitVectors :
       \E id \in Candidates(logits, options, temperature, top_k, top_p) :
         /\ calls' = calls + 1
         /\ selected' = Append(selected, id)
         /\ IF IsStopToken(id)
              THEN /\ result' = ReturnedIds(output)
                   /\ tokens' = i
                   /\ pc' = "returned"
                   /\ UNCHANGED <<output, i>>
              ELSE /\ output' = Append(output, id)
                   /\ IF HasNextStep(i, MAX_LENGTH)
                        THEN /\ i' = i + 1
                             /\ UNCHANGED <<pc, result, tokens>>
                        ELSE /\ result' = ReturnedIds(output')
                             /\ tokens' = i
                             /\ pc' = "returned"
                             /\ UNCHANGED i
  /\ UNCHANGED <<options, temperature, top_k, top_p, valid, MAX_LENGTH, subplots,
                 info, filterVars>>

\* main, lines 182-209: one overlay subplot per index of range(tokens - 1),
\* titled with tokenizer.decode([result[i]])
Render ==
  /\ pc = "returned"
  /\ subplots' = [j \in RenderRange(tokens) |-> result[j]]
  /\ pc' = "rendered"
  /\ UNCHANGED <<options, temperature, top_k, top_p, valid, MAX_LENGTH, output, i,
                 calls, selected, result, tokens, info, filterVars>>

\* a widget interaction or 'Regenerate Report' makes streamlit run main again
Rerun ==
  /\ pc \in {"rejected", "rendered"}
  /\ pc' = "idle"
  /\ valid' = 0 /\ output' = <<START_TOKEN>> /\ i' = 0
  /\ calls' = 0 /\ selected' = <<>> /\ result' = <<>> /\ tokens' = 0
  /\ subplots' = <<>> /\ info' = FALSE
  /\ UNCHANGED <<options, temperature, top_k, top_p, MAX_LENGTH, filterVars>>

Next ==
  \/ SelectOptions \/ SlideTemperature \/ SlideTopK \/ SlideTopP
  \/ Upload \/ DecodeStep \/ Render \/ Rerun

Spec == Init /\ [][Next]_vars

\* ------------------------------------------------------------- properties
AfterTopK == stage \in {"top_k", "top_p", "selected"}
AfterTopP == stage \in {"top_p", "selected"}
EvaluateReturned == pc \in {"returned", "rendered"}

NotSentinel(x) == x # SENTINEL

\* the unmasked values of a vector, in descending order
UnmaskedSorted(v) == SortDesc(SelectSeq(VecToSeq(v), NotSentinel))

\* length of the smallest prefix of the sorted sequence whose cumulative
\* softmax probability is at least p
SmallestPrefix(sorted, p) ==
  LET total == CumWeight(sorted, Len(sorted))
  IN CHOOSE m \in 1..Len(sorted) :
       /\ CumWeight(sorted, m) * SLIDER_DEN >= p * total
       /\ \A j \in 1..(m - 1) : CumWeight(sorted, j) * SLIDER_DEN < p * total

\* the selected ids before the first stop token
RECURSIVE UpToStop(_)
UpToStop(s) ==
  IF Len(s) = 0 \/ Head(s) = STOP_TOKEN THEN <<>>
  ELSE <<Head(s)>> \o UpToStop(Tail(s))

HasStop(s) == \E j \in 1..Len(s) : s[j] = STOP_TOKEN

\* C1: for k >= 1, top_k_logits leaves at most k logits unmasked; every
\* position either keeps its input value or holds the sentinel.
C1_TopKAtMostK ==
  (AfterTopK /\ top_k >= 1) =>
    /\ Cardinality(Unmasked(filteredK)) <= top_k
    /\ \A id \in TokenIds : filteredK[id] = scaled[id] \/ filteredK[id] = SENTINEL

\* C2: for 0 < p < 1, the logits top_p_logits leaves unmasked are exactly the
\* smallest prefix, in descending order, whose cumulative softmax probability
\* is at least p.
C2_TopPSmallestPrefix ==
  (AfterTopP /\ top_p > 0 /\ top_p < SLIDER_DEN) =>
    LET sorted == SortDesc(VecToSeq(filteredK))
    IN UnmaskedSorted(predictions) = SubSeq(sorted, 1, SmallestPrefix(sorted, top_p))

\* C3: once the validator has run, a probability below 0.1 means the rejection
\* was reported and no decoding step and no generated text exist; a
\* probability of 0.1 or more means evaluate was entered.
C3_ValidatorGate ==
  (pc # "idle") =>
    /\ (valid < VALID_THRESHOLD =>
          pc = "rejected" /\ info /\ calls = 0 /\ selected = <<>> /\ result = <<>>)
    /\ (valid >= VALID_THRESHOLD =>
          pc \in {"decoding", "returned", "rendered"} /\ ~info)

C3_Witness == valid = VALID_THRESHOLD /\ pc = "decoding" /\ calls > 0

\* C4: a run of evaluate invokes the model at most MAX_LENGTH times, one
\* selection per invocation; the stop token can only be the last selection
\* of a run, and once it is selected or MAX_LENGTH steps are done the loop
\* is left.
C4_BoundedSteps ==
  /\ calls <= MAX_LENGTH
  /\ calls = Len(selected)
  /\ \A j \in 1..Len(selected) :
       selected[j] = STOP_TOKEN => (j = Len(selected) /\ pc # "decoding")
  /\ (calls = MAX_LENGTH => pc # "decoding")
  /\ (pc = "decoding" => i = calls /\ i < MAX_LENGTH)
  /\ (HasStop(selected) => Len(output) = calls)

C4_Witness ==
  pc = "returned" /\ HasStop(selected) /\ calls < MAX_LENGTH /\ Len(output) = calls

\* C5: evaluate returns the selected ids in order up to, not including, the
\* first stop token, without the start token; the result never holds the
\* stop id, and has length MAX_LENGTH when the stop token was never selected.
C5_ReturnedSequence ==
  EvaluateReturned =>
    /\ result = UpToStop(selected)
    /\ \A j \in 1..Len(result) : result[j] # STOP_TOKEN
    /\ (~HasStop(selected) => Len(result) = MAX_LENGTH)

C5_Witness ==
  pc = "returned" /\ ~HasStop(selected) /\ Len(result) = MAX_LENGTH /\ MAX_LENGTH >= 2

\* C6: the third value returned by evaluate is the number of decoding steps
\* (model invocations) executed in the run.
C6_StepCountReturned == EvaluateReturned => tokens = calls

\* C7: main draws one overlay subplot per returned token, subplot j titled
\* with the j-th returned token.
C7_OneMapPerToken ==
  (pc = "rendered") =>
    /\ Len(subplots) = Len(result)
    /\ \A j \in 1..Len(subplots) : subplots[j] = result[j]

\* C8: the temperature that reaches the division of a decoding step is
\* strictly greater than 0.
C8_TemperaturePositive == (calls > 0) => temperature > 0

C10_GreedyIgnoresFilters ==
  /\ (AfterTopK => filteredK[ArgMax(raw)] # SENTINEL)
  /\ (AfterTopP => predictions[ArgMax(raw)] # SENTINEL)
  /\ (stage = "selected" /\ options = "Greedy" => predicted_id = ArgMax(raw))

C10_Witness ==
  /\ stage = "selected" /\ options = "Greedy" /\ temperature < SLIDER_DEN
  /\ top_p = 0 /\ top_k >= 1
  /\ Unmasked(predictions) # TokenIds
  /\ predicted_id = ArgMax(raw) /\ predicted_id > 0

====
